---- MODULE Spec2Model ----
(***************************************************************************)
(* Model of the storage facade of the node (store/store.go): one embedded  *)
(* ordered key-value engine, one write batch shared by the block,          *)
(* transaction, account and validator sub-stores, and the read accessors.  *)
(* Keys and values are byte strings (sequences of 0..255) as in the        *)
(* persisted layout; a uint32 is its four bytes, so 32-bit arithmetic      *)
(* wraps exactly as in the code.                                           *)
(***************************************************************************)
EXTENDS Integers, Sequences, FiniteSets, TLC

(***************************************************************************)
(* Bounds of the model.                                                    *)
(***************************************************************************)
MaxHeight == 2
MaxOps == 3

Addrs == {1, 2}
Balances == {1, 2}
Stakes == {1, 2}
Variants == {1, 2}
Callers == {"consensus", "state"}

(***************************************************************************)
(* Program constants.                                                      *)
(***************************************************************************)
HashSize == 32
lastStoreVersion == 1

Nil == "nil"
ErrNotFound == "not found"
ErrBadOffset == "offset is out of range"
ErrEngine == "engine failure"
Panic == "panic"

lastInfoKey == <<0>>
blockPrefix == <<1>>
txPrefix == <<3>>
accountPrefix == <<5>>
validatorPrefix == <<7>>
blockHeightPrefix == <<9>>

(***************************************************************************)
(* uint32 values as four big-endian bytes.                                 *)
(***************************************************************************)
U32(n) == << (n \div 16777216) % 256, (n \div 65536) % 256, (n \div 256) % 256, n % 256 >>

\* a + b in 32 bits: byte-wise addition with carry, the carry out of the top byte is dropped
Add32(a, b) ==
    LET s4 == a[4] + b[4]
        s3 == a[3] + b[3] + (s4 \div 256)
        s2 == a[2] + b[2] + (s3 \div 256)
        s1 == a[1] + b[1] + (s2 \div 256)
    IN << s1 % 256, s2 % 256, s3 % 256, s4 % 256 >>

\* whether a + b does not fit 32 bits (the carry out of the top byte)
Carry32(a, b) ==
    LET s4 == a[4] + b[4]
        s3 == a[3] + b[3] + (s4 \div 256)
        s2 == a[2] + b[2] + (s3 \div 256)
        s1 == a[1] + b[1] + (s2 \div 256)
    IN s1 >= 256

\* a > b on uint32 values
Gt32(a, b) ==
    \E i \in 1..4 : a[i] > b[i] /\ \A j \in 1..(i - 1) : a[j] = b[j]

\* the value of a uint32 as an int (64 bits in the code), for values below 2^31
ToInt(a) == ((a[1] * 256 + a[2]) * 256 + a[3]) * 256 + a[4]

\* little-endian decoding of four bytes (util.SliceToUint32)
SliceToUint32(bs) == << bs[4], bs[3], bs[2], bs[1] >>
Uint32ToSlice(u) == << u[4], u[3], u[2], u[1] >>

\* Go's s[lo:hi] on a byte slice, 0-based, for 0 <= lo <= hi <= len(s)
Slice(s, lo, hi) == SubSeq(s, lo + 1, hi)

RECURSIVE Concat(_)
Concat(ss) == IF ss = <<>> THEN <<>> ELSE Head(ss) \o Concat(Tail(ss))

(***************************************************************************)
(* The key-value engine: a map from keys to values, and a batch of puts.   *)
(***************************************************************************)
Has(d, key) == key \in DOMAIN d

\* tryGet giving a zero value and no error for a key the engine does not hold
tryGet_ZeroValueWhenAbsent(d, key) ==
    IF Has(d, key) THEN [err |-> Nil, data |-> d[key]]
    ELSE [err |-> Nil, data |-> [k \in 1..(HashSize + 12) |-> 0]]

\* db.Get through tryGet: the value, or the engine's not-found error
tryGet(d, key) ==
    IF Has(d, key) THEN [err |-> Nil, data |-> d[key]] ELSE [err |-> ErrNotFound, data |-> <<>>]

Put(d, key, value) == [k \in DOMAIN d \cup {key} |-> IF k = key THEN value ELSE d[k]]

\* db.Write(batch): every put of the batch, in order, atomically
RECURSIVE Write(_, _)
Write(d, b) == IF b = <<>> THEN d ELSE Write(Put(d, Head(b).key, Head(b).value), Tail(b))

BatchPut(b, key, value) == Append(b, [key |-> key, value |-> value])

(***************************************************************************)
(* Blocks, transactions and certificates handed in by the consensus        *)
(* engine.  The block saved at height h is one of a few variants; its hash *)
(* depends on the height (the header chains on the previous block).        *)
(* Transaction 1 occurs in the second variant at every height, so the same *)
(* transaction id can be saved at two heights.                             *)
(***************************************************************************)
Heights == 1..MaxHeight
TxIds == 1..(MaxHeight + 1)

TxsOf(h, v) == IF v = 1 THEN << h + 1 >> ELSE IF v = 2 THEN << h + 1, 1 >> ELSE << >>
TxLen(t) == 32 + t
TxBytes(t) == [k \in 1..TxLen(t) |-> (40 * t + k) % 256]
HashOf(h, v) == [k \in 1..HashSize |-> (64 * h + 8 * v + k) % 256]
TimeOf(h, v) == U32(1000 * h + v)

Blk(h, v) == [hash |-> HashOf(h, v), time |-> TimeOf(h, v), txs |-> TxsOf(h, v)]
Cert(h, v) == [height |-> U32(h), round |-> v]

\* the header as serialized: a one-byte marker, then the block time (little-endian)
HeaderBytes(blk) == << 1 >> \o Uint32ToSlice(blk.time)
\* the certificate as serialized: its height and its round
CertBytes(cert) == cert.height \o << cert.round >>

(***************************************************************************)
(* Block store.                                                            *)
(***************************************************************************)
blockKey(height) == blockPrefix \o height
blockHashKey(hash) == blockHeightPrefix \o hash

\* the bytes written before the i-th transaction: hash, header, transaction count, earlier transactions
BlockPrefixBytes(blk, i) ==
    blk.hash \o HeaderBytes(blk) \o << Len(blk.txs) >>
        \o Concat([j \in 1..(i - 1) |-> TxBytes(blk.txs[j])])

\* the stored value of a block: hash, then the serialized block
BlockBytes(blk) == BlockPrefixBytes(blk, Len(blk.txs) + 1)

\* the position record of the i-th transaction, from the serialized layout
blockRegion(height, blk, i) ==
    [height |-> height,
     offset |-> U32(Len(BlockPrefixBytes(blk, i))),
     length |-> U32(Len(TxBytes(blk.txs[i])))]

\* blockStore.saveBlock: enqueue the block and its height-index entry
saveBlock(b, height, blk) ==
    BatchPut(BatchPut(b, blockKey(height), BlockBytes(blk)), blockHashKey(blk.hash), height)

\* blockStore.block: the stored bytes of the block at a height
block(d, height) == tryGet(d, blockKey(height))

\* blockStore.blockHeight: the height of a hash, 0 when absent
blockHeight(d, hash) ==
    LET r == tryGet(d, blockHashKey(hash)) IN IF r.err # Nil THEN U32(0) ELSE r.data

(***************************************************************************)
(* Transaction store.                                                      *)
(***************************************************************************)
txKey(id) == txPrefix \o << id >>

\* a position record as stored: height, offset, length, twelve bytes
PosBytes(reg) == reg.height \o reg.offset \o reg.length

\* txStore.saveTx
saveTx(b, id, reg) == BatchPut(b, txKey(id), PosBytes(reg))

\* txStore.tx: the decoded position record of a transaction id
tx(d, id) ==
    LET r == tryGet(d, txKey(id)) IN
    IF r.err # Nil
    THEN [err |-> r.err, height |-> U32(0), offset |-> U32(0), length |-> U32(0)]
    ELSE [err |-> Nil, height |-> SubSeq(r.data, 1, 4), offset |-> SubSeq(r.data, 5, 8),
          length |-> SubSeq(r.data, 9, 12)]

(***************************************************************************)
(* Account store and validator store.                                      *)
(***************************************************************************)
accountKey(addr) == accountPrefix \o << addr >>
validatorKey(addr) == validatorPrefix \o << addr >>

hasAccount(d, addr) == Has(d, accountKey(addr))

\* accountStore.account: the decoded account of an address
account(d, addr) ==
    LET r == tryGet(d, accountKey(addr)) IN
    [err |-> r.err, balance |-> IF r.err = Nil THEN r.data[1] ELSE 0]

\* validatorStore.validator: the decoded validator of an address
validator(d, addr) ==
    LET r == tryGet(d, validatorKey(addr)) IN
    [err |-> r.err, number |-> IF r.err = Nil THEN r.data[1] ELSE 0,
     stake |-> IF r.err = Nil THEN r.data[2] ELSE 0]

\* an account as serialized: its balance
AccountBytes(bal) == << bal >>

\* accountStore.updateAccount: count an address the engine does not hold yet, enqueue the record
updateAccount(d, b, total, addr, bal) ==
    [total |-> IF hasAccount(d, addr) THEN total ELSE total + 1,
     batch |-> BatchPut(b, accountKey(addr), AccountBytes(bal))]

\* a validator as serialized: its number and its stake
ValidatorBytes(num, stake) == << num, stake >>

\* validatorStore.hasValidator: the engine's existence test, like hasAccount
hasValidator(d, addr) == Has(d, validatorKey(addr))

\* the address is in the validator store's in-memory address list
inAddressList(numbers, addr) == addr \in DOMAIN numbers

\* a new validator getting the current maximum itself
NextNumber_NotPastMax(numbers) ==
    IF DOMAIN numbers = {} THEN 0
    ELSE CHOOSE n \in {numbers[a] : a \in DOMAIN numbers} :
             \A a \in DOMAIN numbers : numbers[a] <= n

\* one past the largest number assigned so far, 0 for the first validator
NextNumber(numbers) ==
    IF DOMAIN numbers = {} THEN 0
    ELSE 1 + CHOOSE n \in {numbers[a] : a \in DOMAIN numbers} :
                 \A a \in DOMAIN numbers : numbers[a] <= n

\* validatorStore.updateValidator: a fresh number on first sight, the same number afterwards
updateValidator(b, total, numbers, addr, stake) ==
    LET first == ~inAddressList(numbers, addr)
        num == IF first THEN NextNumber(numbers) ELSE numbers[addr]
    IN [total |-> IF first THEN total + 1 ELSE total,
        numbers |-> [a \in DOMAIN numbers \cup {addr} |-> IF a = addr THEN num ELSE numbers[a]],
        batch |-> BatchPut(b, validatorKey(addr), ValidatorBytes(num, stake))]

(***************************************************************************)
(* The facade: what each public operation computes.  Every operation runs  *)
(* under the store's lock (s.lk.Lock, defer s.lk.Unlock), so each is one   *)
(* atomic step of the model.                                               *)
(***************************************************************************)
RECURSIVE saveTxs(_, _, _, _)
saveTxs(b, height, blk, i) ==
    IF i > Len(blk.txs) THEN b
    ELSE saveTxs(saveTx(b, blk.txs[i], blockRegion(height, blk, i)), height, blk, i + 1)

\* the last-certificate record: version, then the certificate
LastInfoBytes(cert) == Uint32ToSlice(U32(lastStoreVersion)) \o CertBytes(cert)

\* SaveBlock without the loop over the block's transactions
SaveBlockBatch_NoTxs(b, blk, cert) ==
    BatchPut(saveBlock(b, cert.height, blk), lastInfoKey, LastInfoBytes(cert))

\* SaveBlock without the last-certificate record
SaveBlockBatch_NoCert(b, blk, cert) ==
    saveTxs(saveBlock(b, cert.height, blk), cert.height, blk, 1)

\* store.SaveBlock: the batch after the call
\* SaveBlock keying each position record by the loop index, not by trx.ID()
SaveBlockBatch_KeyFromIndex(b, blk, cert) ==
    LET height == cert.height
        regs == [i \in 1..Len(blk.txs) |->
                    [key |-> txKey(i), value |-> PosBytes(blockRegion(height, blk, i))]]
    IN BatchPut(saveBlock(b, height, blk) \o regs, lastInfoKey, LastInfoBytes(cert))

SaveBlockBatch(b, blk, cert) ==
    LET height == cert.height IN
    BatchPut(saveTxs(saveBlock(b, height, blk), height, blk, 1), lastInfoKey, LastInfoBytes(cert))

\* Block returning the whole stored value, hash included, as Data
Block_DataFromStart(d, height) ==
    LET r == block(d, height) IN
    IF r.err # Nil THEN [err |-> r.err, BlockHash |-> <<>>, Height |-> U32(0), Data |-> <<>>]
    ELSE [err |-> Nil, BlockHash |-> Slice(r.data, 0, HashSize), Height |-> height,
          Data |-> r.data]

\* store.Block
Block(d, height) ==
    LET r == block(d, height) IN
    IF r.err # Nil THEN [err |-> r.err, BlockHash |-> <<>>, Height |-> U32(0), Data |-> <<>>]
    ELSE IF Len(r.data) < HashSize
         THEN [err |-> Panic, BlockHash |-> <<>>, Height |-> U32(0), Data |-> <<>>]
         ELSE [err |-> Nil, BlockHash |-> Slice(r.data, 0, HashSize), Height |-> height,
               Data |-> Slice(r.data, HashSize, Len(r.data))]

\* store.BlockHeight
BlockHeight(d, hash) == blockHeight(d, hash)

UndefHash == [k \in 1..HashSize |-> 0]

\* BlockHash slicing the hash one byte too far into the value
BlockHash_OffByOne(d, height) ==
    LET r == block(d, height) IN
    IF r.err = Nil THEN Slice(r.data, 1, HashSize + 1) ELSE UndefHash

\* store.BlockHash
BlockHash(d, height) ==
    LET r == block(d, height) IN
    IF r.err = Nil THEN Slice(r.data, 0, HashSize) ELSE UndefHash

\* Transaction slicing one byte past the start of the range
Transaction_OffByOne(d, id) ==
    LET pos == tx(d, id)
        r == block(d, pos.height)
        end == Add32(pos.offset, pos.length)
        none == [TxID |-> id, Height |-> U32(0), BlockTime |-> U32(0), Data |-> <<>>]
    IN IF pos.err # Nil THEN [err |-> pos.err] @@ none
       ELSE IF r.err # Nil THEN [err |-> r.err] @@ none
       ELSE IF Gt32(end, U32(Len(r.data))) THEN [err |-> ErrBadOffset] @@ none
       ELSE [err |-> Nil, TxID |-> id, Height |-> pos.height,
             BlockTime |-> SliceToUint32(Slice(r.data, HashSize + 1, HashSize + 5)),
             Data |-> Slice(r.data, ToInt(pos.offset) + 1, ToInt(end))]

\* store.Transaction
Transaction(d, id) ==
    LET pos == tx(d, id)
        r == block(d, pos.height)
        start == pos.offset
        end == Add32(pos.offset, pos.length)
        none == [TxID |-> id, Height |-> U32(0), BlockTime |-> U32(0), Data |-> <<>>]
    IN IF pos.err # Nil THEN [err |-> pos.err] @@ none
       ELSE IF r.err # Nil THEN [err |-> r.err] @@ none
       ELSE IF Gt32(end, U32(Len(r.data))) THEN [err |-> ErrBadOffset] @@ none
       ELSE IF Len(r.data) < HashSize + 5 \/ Gt32(start, end) THEN [err |-> Panic] @@ none
       ELSE [err |-> Nil, TxID |-> id, Height |-> pos.height,
             BlockTime |-> SliceToUint32(Slice(r.data, HashSize + 1, HashSize + 5)),
             Data |-> Slice(r.data, ToInt(start), ToInt(end))]

\* Transaction when the slice the engine returned has spare capacity: a slice
\* expression is checked against the capacity, so data[33:37] of a shorter
\* value reads the bytes after its end (zero in a fresh allocation) where
\* the capacity reaches, and panics where it does not
TransactionSpare(d, id, spare) ==
    LET pos == tx(d, id)
        r == block(d, pos.height)
        whole == r.data \o [k \in 1..spare |-> 0]
    IN IF pos.err = Nil /\ r.err = Nil /\ Len(r.data) < HashSize + 5
            /\ ~Gt32(Add32(pos.offset, pos.length), U32(Len(r.data)))
            /\ ~Gt32(pos.offset, Add32(pos.offset, pos.length))
            /\ Len(whole) >= HashSize + 5
       THEN [err |-> Nil, TxID |-> id, Height |-> pos.height,
             BlockTime |-> SliceToUint32(Slice(whole, HashSize + 1, HashSize + 5)),
             Data |-> Slice(r.data, ToInt(pos.offset),
                            ToInt(Add32(pos.offset, pos.length)))]
       ELSE Transaction(d, id)

NoCert == [height |-> U32(0), round |-> 0]

\* store.LastCertificate: nil when the record is absent or does not decode
LastCertificate(d) ==
    LET r == tryGet(d, lastInfoKey) IN
    IF r.err # Nil THEN [nil |-> TRUE, cert |-> NoCert]
    ELSE IF Len(r.data) < 4 THEN [nil |-> TRUE, cert |-> NoCert]
    ELSE IF Len(r.data) < 9 THEN [nil |-> TRUE, cert |-> NoCert]
    ELSE [nil |-> FALSE, cert |-> [height |-> SubSeq(r.data, 5, 8), round |-> r.data[9]]]

\* WriteBatch resetting the batch whether or not the write succeeded
WriteBatchResult_ResetAlways(d, b, engineOk) ==
    IF ~engineOk THEN [db |-> d, batch |-> << >>, err |-> ErrEngine]
    ELSE [db |-> Write(d, b), batch |-> << >>, err |-> Nil]

\* WriteBatch never resetting the batch
WriteBatchResult_NoReset(d, b, engineOk) ==
    IF ~engineOk THEN [db |-> d, batch |-> b, err |-> ErrEngine]
    ELSE [db |-> Write(d, b), batch |-> b, err |-> Nil]

\* store.WriteBatch: write the batch; reset it only when the write succeeded
WriteBatchResult(d, b, engineOk) ==
    IF ~engineOk THEN [db |-> d, batch |-> b, err |-> ErrEngine]
    ELSE [db |-> Write(d, b), batch |-> << >>, err |-> Nil]

\* store.Account
Account(d, addr) == account(d, addr)

\* store.Validator
Validator(d, addr) == validator(d, addr)

HasAccount(d, addr) == hasAccount(d, addr)

HasValidator(d, addr) == hasValidator(d, addr)

(***************************************************************************)
(* Iteration and the lookups by number.  The engine iterates the keys of   *)
(* one prefix in byte order; a consumer is given by the call at which it   *)
(* returns stop = true (0: it never does).                                 *)
(***************************************************************************)
StopAfter == {0, 1, 2}

KeysWithPrefix(d, prefix) == {k \in DOMAIN d : SubSeq(k, 1, Len(prefix)) = prefix}

RECURSIVE KeyLess(_, _)
KeyLess(a, b) ==
    IF a = << >> THEN b # << >>
    ELSE IF b = << >> THEN FALSE
    ELSE IF Head(a) # Head(b) THEN Head(a) < Head(b)
    ELSE KeyLess(Tail(a), Tail(b))

RECURSIVE InKeyOrder(_)
InKeyOrder(S) ==
    IF S = {} THEN << >>
    ELSE LET m == CHOOSE k \in S : \A o \in S \ {k} : KeyLess(k, o)
         IN << m >> \o InKeyOrder(S \ {m})

\* the loop of an iteration: decode the record, call the consumer, return
\* when it says stop; the result is the sequence of consumer calls made
RECURSIVE iterateOver(_, _, _, _)
iterateOver(d, keys, calls, stopAfter) ==
    IF keys = << >> THEN calls
    ELSE LET k == Head(keys)
             made == Append(calls, [addr |-> k[Len(k)], value |-> d[k][1]])
         IN IF Len(made) = stopAfter THEN made
            ELSE iterateOver(d, Tail(keys), made, stopAfter)

iterateAccounts(d, stopAfter) ==
    iterateOver(d, InKeyOrder(KeysWithPrefix(d, accountPrefix)), << >>, stopAfter)

iterateValidators(d, stopAfter) ==
    iterateOver(d, InKeyOrder(KeysWithPrefix(d, validatorPrefix)), << >>, stopAfter)

\* IterateAccounts handing the traversal to the validator store
IterateAccounts_OverValidators(d, stopAfter) == iterateValidators(d, stopAfter)

IterateAccounts(d, stopAfter) == iterateAccounts(d, stopAfter)

IterateValidators(d, stopAfter) == iterateValidators(d, stopAfter)

\* validatorStore.validatorByNumber: the durable validator carrying the number
validatorByNumber(d, num) ==
    LET found == {a \in Addrs : validator(d, a).err = Nil /\ validator(d, a).number = num} IN
    IF found = {} THEN [err |-> ErrNotFound, addr |-> 0]
    ELSE [err |-> Nil, addr |-> CHOOSE a \in found : TRUE]

ValidatorByNumber(d, num) == validatorByNumber(d, num)

\* the validator store's address list, in the order of the numbers
validatorAddresses(numbers) ==
    [i \in 1..Cardinality(DOMAIN numbers) |->
        CHOOSE a \in DOMAIN numbers :
            Cardinality({b \in DOMAIN numbers : numbers[b] < numbers[a]}) = i - 1]

(***************************************************************************)
(* State.                                                                  *)
(*   db, batch       the engine's durable map and the store's shared batch *)
(*   accTotal        accountStore.total                                    *)
(*   valTotal        validatorStore.total                                  *)
(*   valNumbers      the validator store's numbers by address              *)
(*   ret             the operation of the last call and the error it gave  *)
(*   lastHeight      the consensus engine's height: blocks are saved at    *)
(*                   consecutive heights from 1                            *)
(*   nops            number of enqueuing calls made so far                 *)
(*   enq             the calls enqueued since the last successful flush    *)
(*   committed       the blocks saved and then flushed, in order           *)
(*   unit            the state-transition engine's open unit of work (its  *)
(*                   updates since its last WriteBatch call): whether some *)
(*                   are pending in the batch, and whether some were made  *)
(*                   durable by the other caller's flush                   *)
(*   flushed         for each address, the last balance passed to          *)
(*                   UpdateAccount and then flushed                        *)
(*   lk, pc          the store's lock and each goroutine's position in its *)
(*                   call, for the specification that takes the lock step  *)
(*                   by step                                               *)
(*   vault           the wallet's vault                                    *)
(*   closed          Close has released the engine handle                  *)
(***************************************************************************)
VARIABLES db, batch, accTotal, valTotal, valNumbers, ret, lastHeight, nops, enq, committed, unit,
          flushed, lk, pc, vault, closed

vars == << db, batch, accTotal, valTotal, valNumbers, ret, lastHeight, nops, enq, committed, unit,
           flushed, lk, pc, vault, closed >>

Threads == {"g1", "g2"}

\* no goroutine is in a call and the lock is free
Unlocked == [writer |-> "none", readers |-> {}]
Idle == [op |-> "none", at |-> "idle", visits |-> 0, outer |-> "none"]
AllIdle == [t \in Threads |-> Idle]

\* a vault that is not in use
NoVault == [neutered |-> FALSE, password |-> "", imported |-> {}]

EmptyMap == [k \in {} |-> << >>]

Init ==
    /\ db = EmptyMap
    /\ batch = << >>
    /\ accTotal = 0
    /\ valTotal = 0
    /\ valNumbers = [a \in {} |-> 0]
    /\ ret = [op |-> "NewStore", err |-> Nil]
    /\ lastHeight = 0
    /\ nops = 0
    /\ enq = << >>
    /\ committed = << >>
    /\ unit = [pending |-> FALSE, durable |-> FALSE]
    /\ flushed = [a \in {} |-> 0]
    /\ lk = Unlocked
    /\ closed = FALSE
    /\ pc = AllIdle
    /\ vault = NoVault

Call(op, a, b) == [op |-> op, a |-> a, b |-> b]

\* the consensus engine saves the next block with its certificate
SaveBlock(v) ==
    /\ nops < MaxOps
    /\ lastHeight < MaxHeight
    /\ LET h == lastHeight + 1 IN
        /\ batch' = SaveBlockBatch(batch, Blk(h, v), Cert(h, v))
        /\ lastHeight' = h
        /\ enq' = Append(enq, Call("SaveBlock", h, v))
    /\ nops' = nops + 1
    /\ ret' = [op |-> "SaveBlock", err |-> Nil]
    /\ UNCHANGED << db, accTotal, valTotal, valNumbers, committed, unit, flushed, lk, pc, vault, closed >>

\* UpdateAccount putting the record into the database at once
UpdateAccount_WritesThrough(addr, bal) ==
    /\ nops < MaxOps
    /\ db' = Put(db, accountKey(addr), AccountBytes(bal))
    /\ accTotal' = updateAccount(db, batch, accTotal, addr, bal).total
    /\ enq' = Append(enq, Call("UpdateAccount", addr, bal))
    /\ nops' = nops + 1
    /\ ret' = [op |-> "UpdateAccount", err |-> Nil]
    /\ unit' = [unit EXCEPT !.pending = TRUE]
    /\ UNCHANGED << batch, valTotal, valNumbers, lastHeight, committed, flushed, lk, pc, vault, closed >>

\* the state-transition engine updates an account
UpdateAccount(addr, bal) ==
    /\ nops < MaxOps
    /\ LET r == updateAccount(db, batch, accTotal, addr, bal) IN
        /\ batch' = r.batch
        /\ accTotal' = r.total
    /\ enq' = Append(enq, Call("UpdateAccount", addr, bal))
    /\ nops' = nops + 1
    /\ ret' = [op |-> "UpdateAccount", err |-> Nil]
    /\ unit' = [unit EXCEPT !.pending = TRUE]
    /\ UNCHANGED << db, valTotal, valNumbers, lastHeight, committed, flushed, lk, pc, vault, closed >>

\* the state-transition engine updates a validator
UpdateValidator(addr, stake) ==
    /\ nops < MaxOps
    /\ LET r == updateValidator(batch, valTotal, valNumbers, addr, stake) IN
        /\ batch' = r.batch
        /\ valTotal' = r.total
        /\ valNumbers' = r.numbers
    /\ enq' = Append(enq, Call("UpdateValidator", addr, stake))
    /\ nops' = nops + 1
    /\ ret' = [op |-> "UpdateValidator", err |-> Nil]
    /\ unit' = [unit EXCEPT !.pending = TRUE]
    /\ UNCHANGED << db, accTotal, lastHeight, committed, flushed, lk, pc, vault, closed >>

SavedBlocks(q) == SelectSeq(q, LAMBDA e : e.op = "SaveBlock")

\* the balances flushed so far, after the account updates of q are flushed too
RECURSIVE FlushedAfter(_, _)
FlushedAfter(f, q) ==
    IF q = << >> THEN f
    ELSE LET e == Head(q) IN
         FlushedAfter(IF e.op = "UpdateAccount"
                        THEN [a \in DOMAIN f \cup {e.a} |-> IF a = e.a THEN e.b ELSE f[a]]
                        ELSE f,
                      Tail(q))

\* a write can fail when there is something to write
EngineCanFail(b) == b # << >>

\* a caller flushes the shared batch; the engine write succeeds or fails
WriteBatch(c, engineOk) ==
    /\ engineOk \/ EngineCanFail(batch)
    /\ LET r == WriteBatchResult(db, batch, engineOk) IN
        /\ db' = r.db
        /\ batch' = r.batch
        /\ ret' = [op |-> "WriteBatch", err |-> r.err]
    /\ IF engineOk
       THEN /\ enq' = << >>
            /\ committed' = committed \o SavedBlocks(enq)
            /\ flushed' = FlushedAfter(flushed, enq)
       ELSE UNCHANGED << enq, committed, flushed >>
    /\ unit' = IF c = "state" THEN [pending |-> FALSE, durable |-> FALSE]
               ELSE IF engineOk
                    THEN [pending |-> FALSE, durable |-> unit.durable \/ unit.pending]
                    ELSE unit
    /\ UNCHANGED << accTotal, valTotal, valNumbers, lastHeight, nops, lk, pc, vault, closed >>

Next ==
    \/ \E v \in Variants : SaveBlock(v)
    \/ \E addr \in Addrs, bal \in Balances : UpdateAccount(addr, bal)
    \/ \E addr \in Addrs, stake \in Stakes : UpdateValidator(addr, stake)
    \/ \E c \in Callers, engineOk \in BOOLEAN : WriteBatch(c, engineOk)

Spec == Init /\ [][Next]_vars

(***************************************************************************)
(* The store with Close.  Close releases the engine handle and leaves the  *)
(* batch alone; a write through a released handle fails.  After Close the  *)
(* calls followed are WriteBatch and Close.                                *)
(***************************************************************************)
\* Close writing the batch before it releases the handle
Close_FlushesFirst ==
    /\ closed' = TRUE
    /\ db' = IF closed THEN db ELSE Write(db, batch)
    /\ batch' = IF closed THEN batch ELSE << >>
    /\ ret' = [op |-> "Close", err |-> IF closed THEN ErrEngine ELSE Nil]
    /\ UNCHANGED << accTotal, valTotal, valNumbers, lastHeight, nops, enq, committed, unit,
                    flushed, lk, pc, vault >>

Close ==
    /\ closed' = TRUE
    /\ ret' = [op |-> "Close", err |-> IF closed THEN ErrEngine ELSE Nil]
    /\ UNCHANGED << db, batch, accTotal, valTotal, valNumbers, lastHeight, nops, enq, committed,
                    unit, flushed, lk, pc, vault >>

\* WriteBatch on the closed store: the engine refuses the write
WriteBatchAfterClose(c) ==
    /\ closed
    /\ LET r == WriteBatchResult(db, batch, FALSE) IN
        /\ db' = r.db
        /\ batch' = r.batch
        /\ ret' = [op |-> "WriteBatch", err |-> r.err]
    /\ unit' = IF c = "state" THEN [pending |-> FALSE, durable |-> FALSE] ELSE unit
    /\ UNCHANGED << accTotal, valTotal, valNumbers, lastHeight, nops, enq, committed, flushed,
                    lk, pc, vault, closed >>

NextClose ==
    \/ ~closed /\ SaveBlock(1)
    \/ ~closed /\ \E addr \in Addrs : UpdateAccount(addr, 1)
    \/ ~closed /\ \E addr \in Addrs : UpdateValidator(addr, 1)
    \/ ~closed /\ \E engineOk \in BOOLEAN : WriteBatch("state", engineOk)
    \/ Close
    \/ \E c \in Callers : WriteBatchAfterClose(c)

SpecClose == Init /\ [][NextClose]_vars

(***************************************************************************)
(* The facade with its lock taken step by step.  A goroutine calls an      *)
(* operation (at = "wait"), gets the lock the operation asks for ("in"),   *)
(* runs the body ("out") and returns through the deferred unlock ("idle"). *)
(* IterateAccounts calls the consumer once per durable account; a consumer *)
(* continues, stops, or calls the store itself before it continues, and    *)
(* that call waits for its own lock while the iteration holds the first.   *)
(***************************************************************************)
LockOps == {"PublicKey", "Account", "UpdateAccount", "IterateAccounts", "ValidatorAddresses",
            "WriteBatch", "Close"}
ConsumerCalls == {"Account", "ValidatorAddresses", "PublicKey"}
Reactions == {"continue", "stop"} \cup ConsumerCalls

\* IterateAccounts running without the lock, as PublicKey does
LockKind_IterateUnlocked(op) ==
    IF op \in {"PublicKey", "IterateAccounts"} THEN "none"
    ELSE IF op = "ValidatorAddresses" THEN "shared"
    ELSE "exclusive"

\* the lock an operation takes: s.lk.Lock(), s.lk.RLock(), or none
LockKind(op) ==
    IF op = "PublicKey" THEN "none"
    ELSE IF op = "ValidatorAddresses" THEN "shared"
    ELSE "exclusive"

\* sync.RWMutex: Lock needs no holder at all, RLock no writer
CanLock(l, kind) ==
    \/ kind = "none"
    \/ kind = "shared" /\ l.writer = "none"
    \/ kind = "exclusive" /\ l.writer = "none" /\ l.readers = {}

AfterLock(l, t, kind) ==
    IF kind = "exclusive" THEN [l EXCEPT !.writer = t]
    ELSE IF kind = "shared" THEN [l EXCEPT !.readers = @ \cup {t}]
    ELSE l

\* an operation returning with the lock still held
AfterUnlock_KeepsLock(l, t, kind) == l

\* the deferred s.lk.Unlock() / s.lk.RUnlock()
AfterUnlock(l, t, kind) ==
    IF kind = "exclusive" THEN [l EXCEPT !.writer = "none"]
    ELSE IF kind = "shared" THEN [l EXCEPT !.readers = @ \ {t}]
    ELSE l

\* a goroutine calls an operation of the store
Invoke(t, op) ==
    /\ pc[t].at = "idle"
    /\ op = "UpdateAccount" => nops < MaxOps
    /\ pc' = [pc EXCEPT ![t] = [op |-> op, at |-> "wait", visits |-> 0, outer |-> "none"]]
    /\ nops' = IF op = "UpdateAccount" THEN nops + 1 ELSE nops
    /\ UNCHANGED << db, batch, accTotal, valTotal, valNumbers, ret, lastHeight, enq, committed,
                    unit, flushed, lk, vault, closed >>

\* the first statement of the operation: it gets its lock, or none for PublicKey
Acquire(t) ==
    /\ pc[t].at = "wait"
    /\ CanLock(lk, LockKind(pc[t].op))
    /\ lk' = AfterLock(lk, t, LockKind(pc[t].op))
    /\ pc' = [pc EXCEPT ![t].at = "in"]
    /\ UNCHANGED << db, batch, accTotal, valTotal, valNumbers, ret, lastHeight, nops, enq,
                    committed, unit, flushed, vault, closed >>

\* the body of an operation that changes nothing in the store (of Close,
\* this specification follows the lock only)
ReadBody(t) ==
    /\ pc[t].at = "in"
    /\ pc[t].op \in {"PublicKey", "Account", "ValidatorAddresses", "Close"}
    /\ pc' = [pc EXCEPT ![t].at = "out"]
    /\ UNCHANGED << db, batch, accTotal, valTotal, valNumbers, ret, lastHeight, nops, enq,
                    committed, unit, flushed, lk, vault, closed >>

UpdateAccountBody(t, addr) ==
    /\ pc[t].at = "in"
    /\ pc[t].op = "UpdateAccount"
    /\ LET r == updateAccount(db, batch, accTotal, addr, 1) IN
        /\ batch' = r.batch
        /\ accTotal' = r.total
    /\ pc' = [pc EXCEPT ![t].at = "out"]
    /\ UNCHANGED << db, valTotal, valNumbers, ret, lastHeight, nops, enq, committed, unit,
                    flushed, lk, vault, closed >>

WriteBatchBody(t, engineOk) ==
    /\ pc[t].at = "in"
    /\ pc[t].op = "WriteBatch"
    /\ engineOk \/ EngineCanFail(batch)
    /\ LET r == WriteBatchResult(db, batch, engineOk) IN
        /\ db' = r.db
        /\ batch' = r.batch
    /\ pc' = [pc EXCEPT ![t].at = "out"]
    /\ UNCHANGED << accTotal, valTotal, valNumbers, ret, lastHeight, nops, enq, committed, unit,
                    flushed, lk, vault, closed >>

\* IterateAccounts hands the next durable account to the consumer
Consume(t, reaction) ==
    /\ pc[t].at = "in"
    /\ pc[t].op = "IterateAccounts"
    /\ pc[t].visits < Len(iterateAccounts(db, 0))
    /\ pc' = [pc EXCEPT ![t] =
                IF reaction = "continue" THEN [@ EXCEPT !.visits = @ + 1]
                ELSE IF reaction = "stop" THEN [@ EXCEPT !.at = "out"]
                ELSE [op |-> reaction, at |-> "wait", visits |-> @.visits, outer |-> @.op]]
    /\ UNCHANGED << db, batch, accTotal, valTotal, valNumbers, ret, lastHeight, nops, enq,
                    committed, unit, flushed, lk, vault, closed >>

\* no account is left to visit
EndIteration(t) ==
    /\ pc[t].at = "in"
    /\ pc[t].op = "IterateAccounts"
    /\ pc[t].visits = Len(iterateAccounts(db, 0))
    /\ pc' = [pc EXCEPT ![t].at = "out"]
    /\ UNCHANGED << db, batch, accTotal, valTotal, valNumbers, ret, lastHeight, nops, enq,
                    committed, unit, flushed, lk, vault, closed >>

\* the operation returns: the deferred unlock runs; a call made by a consumer
\* returns into the iteration, which goes on
Return(t) ==
    /\ pc[t].at = "out"
    /\ lk' = AfterUnlock(lk, t, LockKind(pc[t].op))
    /\ pc' = [pc EXCEPT ![t] =
                IF @.outer = "none" THEN Idle
                ELSE [op |-> @.outer, at |-> "in", visits |-> @.visits + 1, outer |-> "none"]]
    /\ UNCHANGED << db, batch, accTotal, valTotal, valNumbers, ret, lastHeight, nops, enq,
                    committed, unit, flushed, vault, closed >>

NextLock ==
    \/ \E t \in Threads, op \in LockOps : Invoke(t, op)
    \/ \E t \in Threads : Acquire(t)
    \/ \E t \in Threads : ReadBody(t)
    \/ \E t \in Threads, addr \in Addrs : UpdateAccountBody(t, addr)
    \/ \E t \in Threads, engineOk \in BOOLEAN : WriteBatchBody(t, engineOk)
    \/ \E t \in Threads, reaction \in Reactions : Consume(t, reaction)
    \/ \E t \in Threads : EndIteration(t)
    \/ \E t \in Threads : Return(t)

SpecLock == Init /\ [][NextLock]_vars

\* scheduling: a goroutine that can run its next statement does so; a
\* goroutine waiting in Lock or RLock gets the lock if it is free again and
\* again (sync.Mutex hands the lock to a starving waiter)
FairLock ==
    \A t \in Threads :
        /\ SF_vars(Acquire(t))
        /\ WF_vars(ReadBody(t))
        /\ WF_vars(\E addr \in Addrs : UpdateAccountBody(t, addr))
        /\ WF_vars(\E engineOk \in BOOLEAN : WriteBatchBody(t, engineOk))
        /\ WF_vars(\E reaction \in Reactions : Consume(t, reaction))
        /\ WF_vars(EndIteration(t))
        /\ WF_vars(Return(t))

FairSpecLock == Init /\ [][NextLock]_vars /\ FairLock

(***************************************************************************)
(* The wallet's vault, as its test drives it: a vault made from a mnemonic *)
(* with three derived addresses and one imported key, then encrypted.  The *)
(* key store opens with the current password only ("" when the vault is    *)
(* not encrypted); a neutered vault has no key store.                      *)
(***************************************************************************)
ErrNeutered == "vault is neutered"
ErrInvalidPassword == "invalid password"
ErrAddressExists == "address already exists"
ErrAddressNotFound == "address not found"

tPassword == "super_secret_password"
Passwords == {"", tPassword, "invalid-password"}
PrivateKeySet == {"imported", "other", "third"}
DerivedAddrs == {"addr-1", "addr-2", "addr-3"}
AskedAddrs == {"addr-1", "random"}

\* the key store opening with the empty password too
decryptKeyStore_AcceptsEmpty(v, password) ==
    IF password = v.password \/ password = "" THEN Nil ELSE ErrInvalidPassword

decryptKeyStore(v, password) == IF password = v.password THEN Nil ELSE ErrInvalidPassword

IsEncrypted(v) == v.password # ""

\* an imported key adds an account address and a validator address
AddressCount(v) == Cardinality(DerivedAddrs) + 2 * Cardinality(v.imported)

Neuter(v) == [neutered |-> TRUE, password |-> "", imported |-> {}]

Mnemonic(v, password) ==
    IF v.neutered THEN [err |-> ErrNeutered, vault |-> v]
    ELSE [err |-> decryptKeyStore(v, password), vault |-> v]

PrivateKeys(v, password, addr) ==
    IF v.neutered THEN [err |-> ErrNeutered, vault |-> v]
    ELSE IF decryptKeyStore(v, password) # Nil
    THEN [err |-> decryptKeyStore(v, password), vault |-> v]
    ELSE IF addr \notin DerivedAddrs THEN [err |-> ErrAddressNotFound, vault |-> v]
    ELSE [err |-> Nil, vault |-> v]

\* ImportPrivateKey opening the key store before it looks at the vault's type
ImportPrivateKey_PasswordFirst(v, password, prv) ==
    IF decryptKeyStore(v, password) # Nil
    THEN [err |-> decryptKeyStore(v, password), vault |-> v]
    ELSE IF v.neutered THEN [err |-> ErrNeutered, vault |-> v]
    ELSE IF prv \in v.imported THEN [err |-> ErrAddressExists, vault |-> v]
    ELSE [err |-> Nil, vault |-> [v EXCEPT !.imported = @ \cup {prv}]]

ImportPrivateKey(v, password, prv) ==
    IF v.neutered THEN [err |-> ErrNeutered, vault |-> v]
    ELSE IF decryptKeyStore(v, password) # Nil
    THEN [err |-> decryptKeyStore(v, password), vault |-> v]
    ELSE IF prv \in v.imported THEN [err |-> ErrAddressExists, vault |-> v]
    ELSE [err |-> Nil, vault |-> [v EXCEPT !.imported = @ \cup {prv}]]

\* UpdatePassword leaving the key store as it is when the new password is empty
UpdatePassword_KeepsEncryption(v, oldPassword, newPassword) ==
    IF v.neutered THEN [err |-> ErrNeutered, vault |-> v]
    ELSE IF decryptKeyStore(v, oldPassword) # Nil
    THEN [err |-> decryptKeyStore(v, oldPassword), vault |-> v]
    ELSE [err |-> Nil,
          vault |-> IF newPassword = "" THEN v ELSE [v EXCEPT !.password = newPassword]]

UpdatePassword(v, oldPassword, newPassword) ==
    IF v.neutered THEN [err |-> ErrNeutered, vault |-> v]
    ELSE IF decryptKeyStore(v, oldPassword) # Nil
    THEN [err |-> decryptKeyStore(v, oldPassword), vault |-> v]
    ELSE [err |-> Nil, vault |-> [v EXCEPT !.password = newPassword]]

\* setup: the vault of the test, encrypted with tPassword
InitVault ==
    /\ vault = [neutered |-> FALSE, password |-> tPassword, imported |-> {"imported"}]
    /\ ret = [op |-> "setup", err |-> Nil, password |-> ""]
    /\ db = EmptyMap
    /\ batch = << >>
    /\ accTotal = 0
    /\ valTotal = 0
    /\ valNumbers = [a \in {} |-> 0]
    /\ lastHeight = 0
    /\ nops = 0
    /\ enq = << >>
    /\ committed = << >>
    /\ unit = [pending |-> FALSE, durable |-> FALSE]
    /\ flushed = [a \in {} |-> 0]
    /\ lk = Unlocked
    /\ closed = FALSE
    /\ pc = AllIdle

\* one call on the vault: what it returned and the vault it left
VaultCall(op, password, r) ==
    /\ vault' = r.vault
    /\ ret' = [op |-> op, err |-> r.err, password |-> password]
    /\ UNCHANGED << db, batch, accTotal, valTotal, valNumbers, lastHeight, nops, enq,
                    committed, unit, flushed, lk, pc, closed >>

MnemonicCall(password) == VaultCall("Mnemonic", password, Mnemonic(vault, password))

PrivateKeysCall(password, addr) ==
    VaultCall("PrivateKeys", password, PrivateKeys(vault, password, addr))

ImportPrivateKeyCall(password, prv) ==
    VaultCall("ImportPrivateKey", password, ImportPrivateKey(vault, password, prv))

UpdatePasswordCall(oldPassword, newPassword) ==
    LET r == UpdatePassword(vault, oldPassword, newPassword) IN
    /\ vault' = r.vault
    /\ ret' = [op |-> "UpdatePassword", err |-> r.err, password |-> oldPassword,
               newPassword |-> newPassword]
    /\ UNCHANGED << db, batch, accTotal, valTotal, valNumbers, lastHeight, nops, enq,
                    committed, unit, flushed, lk, pc, closed >>

\* the caller goes on with the neutered copy of the vault
NeuterCall == VaultCall("Neuter", "", [err |-> Nil, vault |-> Neuter(vault)])

NextVault ==
    \/ \E password \in Passwords : MnemonicCall(password)
    \/ \E password \in Passwords, addr \in AskedAddrs : PrivateKeysCall(password, addr)
    \/ \E password \in Passwords, prv \in PrivateKeySet : ImportPrivateKeyCall(password, prv)
    \/ \E oldPassword \in Passwords, newPassword \in Passwords :
          UpdatePasswordCall(oldPassword, newPassword)
    \/ NeuterCall

SpecVault == InitVault /\ [][NextVault]_vars

(***************************************************************************)
(* The counters and the address list, read through the facade.             *)
(***************************************************************************)
TotalAccounts == accTotal

\* TotalValidators answering with the account store's counter
TotalValidators_AccountTotal == accTotal

TotalValidators == valTotal

ValidatorAddresses == validatorAddresses(valNumbers)

(***************************************************************************)
(* Transaction on a store opened over an existing database, whose records  *)
(* were not necessarily written by SaveBlock: one block at height 1 and    *)
(* one position record, for transaction 1, with any height, offset and     *)
(* length.                                                                 *)
(***************************************************************************)
MaxU32 == << 255, 255, 255, 255 >>
StoredHeights == {U32(1), U32(2)}
StoredOffsets == {U32(0), U32(38), U32(72), << 255, 255, 255, 254 >>, MaxU32}
StoredLengths == {U32(0), U32(2), U32(34), U32(35), MaxU32}
StoredBlocks ==
    {BlockBytes(Blk(1, 1)), BlockBytes(Blk(1, 2)), SubSeq(BlockBytes(Blk(1, 1)), 1, HashSize + 4)}

\* the last-info record found in the database: none, one cut inside the
\* version, one that ends before the certificate, and a whole one
StoredLastInfos ==
    {<< >>, << 0, 0 >>, Uint32ToSlice(U32(lastStoreVersion)), LastInfoBytes(Cert(1, 1))}

PutLastInfo(d, info) == IF info = << >> THEN d ELSE Put(d, lastInfoKey, info)

\* NewStore over an existing database
InitTx ==
    /\ \E data \in StoredBlocks, h \in StoredHeights, o \in StoredOffsets, l \in StoredLengths,
          info \in StoredLastInfos :
          db = PutLastInfo(Put(Put(EmptyMap, blockKey(U32(1)), data), txKey(1),
                               PosBytes([height |-> h, offset |-> o, length |-> l])),
                           info)
    /\ batch = << >>
    /\ accTotal = 0
    /\ valTotal = 0
    /\ valNumbers = [a \in {} |-> 0]
    /\ ret = [op |-> "NewStore", err |-> Nil]
    /\ lastHeight = 0
    /\ nops = 0
    /\ enq = << >>
    /\ committed = << >>
    /\ unit = [pending |-> FALSE, durable |-> FALSE]
    /\ flushed = [a \in {} |-> 0]
    /\ lk = Unlocked
    /\ closed = FALSE
    /\ pc = AllIdle
    /\ vault = NoVault

\* the capacity a returned value may have beyond its length
Spares == {0, 12}

\* a caller looks a transaction up
TransactionCall(id, spare) ==
    /\ ret' = [op |-> "Transaction", err |-> TransactionSpare(db, id, spare).err, id |-> id]
    /\ UNCHANGED << db, batch, accTotal, valTotal, valNumbers, lastHeight, nops, enq,
                    committed, unit, flushed, lk, pc, vault, closed >>

\* a caller asks for the last certificate; the call returns a certificate or nil
LastCertificateCall ==
    /\ ret' = [op |-> "LastCertificate", err |-> Nil, nil |-> LastCertificate(db).nil]
    /\ UNCHANGED << db, batch, accTotal, valTotal, valNumbers, lastHeight, nops, enq,
                    committed, unit, flushed, lk, pc, vault, closed >>

NextTx ==
    \/ \E id \in {1, 2}, spare \in Spares : TransactionCall(id, spare)
    \/ LastCertificateCall

SpecTx == InitTx /\ [][NextTx]_vars

(***************************************************************************)
(* Properties.                                                             *)
(***************************************************************************)
\* the puts a sequence of enqueuing calls makes, in order
RECURSIVE ExpectedPuts(_)
ExpectedPuts(q) ==
    IF q = << >> THEN << >>
    ELSE LET e == Head(q)
             puts == IF e.op = "SaveBlock"
                       THEN SaveBlockBatch(<< >>, Blk(e.a, e.b), Cert(e.a, e.b))
                     ELSE IF e.op = "UpdateAccount"
                       THEN << [key |-> accountKey(e.a), value |-> AccountBytes(e.b)] >>
                     ELSE << [key |-> validatorKey(e.a),
                              value |-> ValidatorBytes(valNumbers[e.a], e.b)] >>
         IN puts \o ExpectedPuts(Tail(q))

FlushFailed == ret.op = "WriteBatch" /\ ret.err # Nil
FlushSucceeded == ret.op = "WriteBatch" /\ ret.err = Nil

\* C1: a WriteBatch whose engine write fails returns the engine's error and leaves
\* the durable state and the pending batch as they were; the next successful
\* WriteBatch applies every call enqueued since the last successful flush, those
\* made before the failure included.
C1_FailedFlushKeepsBatch ==
    [][ /\ FlushFailed' => (ret'.err = ErrEngine /\ db' = db /\ batch' = batch)
        /\ FlushSucceeded' => db' = Write(db, ExpectedPuts(enq)) ]_vars

\* a flush has just failed on a batch holding a block and an account update
C1_Witness ==
    /\ FlushFailed
    /\ \E i \in 1..Len(enq) : enq[i].op = "SaveBlock"
    /\ \E i \in 1..Len(enq) : enq[i].op = "UpdateAccount"
    /\ batch # << >>

\* the last call of q on the same key as its i-th call
IsLastOnKey(q, i) ==
    \A j \in (i + 1)..Len(q) : ~(q[j].op = q[i].op /\ q[j].a = q[i].a)

\* what the reads of d show of the call e
Visible(d, e) ==
    IF e.op = "SaveBlock"
    THEN /\ Block(d, U32(e.a)).err = Nil
         /\ Block(d, U32(e.a)).BlockHash = HashOf(e.a, e.b)
         /\ BlockHash(d, U32(e.a)) = HashOf(e.a, e.b)
         /\ BlockHeight(d, HashOf(e.a, e.b)) = U32(e.a)
         /\ \A i \in 1..Len(TxsOf(e.a, e.b)) : tx(d, TxsOf(e.a, e.b)[i]).err = Nil
    ELSE IF e.op = "UpdateAccount"
    THEN Account(d, e.a) = [err |-> Nil, balance |-> e.b]
    ELSE Validator(d, e.a).err = Nil /\ Validator(d, e.a).stake = e.b

\* C2: a successful WriteBatch makes every call enqueued since the previous
\* successful flush visible to the reads (for each key, the last value enqueued)
\* and leaves the pending batch empty.
C2_FlushMakesVisible ==
    [][ FlushSucceeded' =>
          /\ batch' = << >>
          /\ \A i \in 1..Len(enq) : IsLastOnKey(enq, i) => Visible(db', enq[i])
          /\ (\E i \in 1..Len(enq) : enq[i].op = "SaveBlock") =>
                ~LastCertificate(db').nil ]_vars

\* a non-empty batch has just been flushed: the store holds a block and an account
C2_Witness ==
    /\ FlushSucceeded
    /\ batch = << >>
    /\ committed # << >>
    /\ \E addr \in Addrs : hasAccount(db, addr)

\* C3: in the durable state a block record is present exactly when its
\* hash-to-height entry and the position records of all its transactions are,
\* and every position record and every index entry points to a block that is present.
C3_BlockIndexTxTogether ==
    /\ \A h \in Heights, v \in Variants :
          LET blk == Blk(h, v) IN
          (block(db, U32(h)).err = Nil /\ block(db, U32(h)).data = BlockBytes(blk))
            <=> (/\ Has(db, blockHashKey(blk.hash))
                 /\ \A i \in 1..Len(blk.txs) : Has(db, txKey(blk.txs[i])))
    /\ \A t \in TxIds : Has(db, txKey(t)) => block(db, tx(db, t).height).err = Nil
    /\ \A h \in Heights :
          block(db, U32(h)).err = Nil =>
             blockHeight(db, Slice(block(db, U32(h)).data, 0, HashSize)) = U32(h)

\* a block with two transactions is durable while further mutations are pending
C3_Witness ==
    /\ \E h \in Heights :
          /\ block(db, U32(h)).err = Nil
          /\ block(db, U32(h)).data = BlockBytes(Blk(h, 2))
    /\ batch # << >>

\* C4 (as claimed): with the two callers running concurrently, no durable state
\* holds a committed block together with only part of the state-transition
\* engine's unit of work, some of its updates durable and others still pending.
C4_NoPartialGroup == ~(committed # << >> /\ unit.durable /\ unit.pending)

CommittedAt(h, t) ==
    \E k \in 1..Len(committed) :
        /\ committed[k].a = h
        /\ \E i \in 1..Len(TxsOf(h, committed[k].b)) : TxsOf(h, committed[k].b)[i] = t

\* C5: for every committed block, Block succeeds with the block's height and the
\* hash that leads the stored value, BlockHash gives the same hash, and
\* BlockHeight of that hash is the height.
C5_BlockHashHeightAgree ==
    \A k \in 1..Len(committed) :
        LET h == committed[k].a
            v == committed[k].b
            b == Block(db, U32(h))
        IN /\ b.err = Nil
           /\ b.Height = U32(h)
           /\ b.BlockHash = Slice(db[blockKey(U32(h))], 0, HashSize)
           /\ b.BlockHash = HashOf(h, v)
           /\ BlockHash(db, U32(h)) = b.BlockHash
           /\ BlockHeight(db, BlockHash(db, U32(h))) = U32(h)

\* two blocks are committed
C5_Witness == Len(committed) = 2 /\ Block(db, U32(2)).err = Nil

\* C6: for every transaction of a committed block at height h whose position
\* record is (h, o, l), Transaction gives the height h and exactly the bytes
\* [o, o+l) of the value stored for height h, which are the transaction's bytes.
C6_TransactionIsBlockRange ==
    \A h \in Heights, t \in TxIds :
        LET pos == tx(db, t)
            r == Transaction(db, t)
            o == ToInt(pos.offset)
            l == ToInt(pos.length)
        IN (CommittedAt(h, t) /\ pos.err = Nil /\ pos.height = U32(h)) =>
              /\ r.err = Nil
              /\ r.Height = U32(h)
              /\ r.Data = Slice(block(db, U32(h)).data, o, o + l)
              /\ r.Data = TxBytes(t)

\* the second transaction of the block committed at height 2 is found there
C6_Witness ==
    /\ CommittedAt(2, 1)
    /\ tx(db, 1).err = Nil
    /\ tx(db, 1).height = U32(2)
    /\ Transaction(db, 1).err = Nil

\* C7 (as claimed): the data of a transaction is the range [o, o+l) of the Data
\* of Block for its height, wherever that range lies within Data.
C7_SameOffsetBase ==
    \A h \in Heights, t \in TxIds :
        LET pos == tx(db, t)
            b == Block(db, U32(h))
            o == ToInt(pos.offset)
            l == ToInt(pos.length)
        IN (CommittedAt(h, t) /\ pos.err = Nil /\ pos.height = U32(h)
                /\ o + l <= Len(b.Data)) =>
              Transaction(db, t).Data = Slice(b.Data, o, o + l)

\* C7 (amended): offsets count from the start of the stored value, which leads
\* with the 32-byte hash that Block strips from Data: the data of a transaction
\* is the range [o-32, o+l-32) of the Data of Block for its height.
C7_OffsetBaseIsStoredValue ==
    \A h \in Heights, t \in TxIds :
        LET pos == tx(db, t)
            b == Block(db, U32(h))
            o == ToInt(pos.offset)
            l == ToInt(pos.length)
        IN (CommittedAt(h, t) /\ pos.err = Nil /\ pos.height = U32(h)) =>
              /\ o >= HashSize
              /\ o + l - HashSize <= Len(b.Data)
              /\ Transaction(db, t).err = Nil
              /\ Transaction(db, t).Data = Slice(b.Data, o - HashSize, o + l - HashSize)

\* a committed transaction whose range [o, o+l) lies within the Data of its block
C7_Witness ==
    \E h \in Heights, t \in TxIds :
        /\ CommittedAt(h, t)
        /\ tx(db, t).err = Nil
        /\ tx(db, t).height = U32(h)
        /\ ToInt(tx(db, t).offset) + ToInt(tx(db, t).length) <= Len(Block(db, U32(h)).Data)

\* whether the range end o + l lies beyond n bytes
RangeEndExceeds(o, l, n) == Carry32(o, l) \/ Gt32(Add32(o, l), U32(n))

\* C8 (as claimed): for every durable position record (h, o, l) whose block exists
\* and whose range end o + l exceeds the length of the stored block bytes,
\* Transaction gives ErrBadOffset and no data.
C8_RangeBeyondBlockIsBadOffset ==
    \A id \in {1, 2} :
        LET pos == tx(db, id)
            r == block(db, pos.height)
        IN (pos.err = Nil /\ r.err = Nil
                /\ RangeEndExceeds(pos.offset, pos.length, Len(r.data))) =>
              /\ Transaction(db, id).err = ErrBadOffset
              /\ Transaction(db, id).Data = << >>

CommittedHeights == {committed[k].a : k \in 1..Len(committed)}

\* C9: Transaction of an id with no durable position record (never saved, or
\* saved and not yet flushed) gives the not-found error and no result, and so
\* does Block of a height with no durable block.
C9_AbsentIsNotFound ==
    /\ \A t \in TxIds :
          (\A h \in Heights : ~CommittedAt(h, t)) =>
              /\ Transaction(db, t).err = ErrNotFound
              /\ Transaction(db, t).Data = << >>
    /\ \A h \in Heights :
          h \notin CommittedHeights =>
              /\ Block(db, U32(h)).err = ErrNotFound
              /\ Block(db, U32(h)).Data = << >>

\* block 1 is durable and block 2, with a transaction of its own, is only enqueued
C9_Witness ==
    /\ CommittedHeights = {1}
    /\ \E i \in 1..Len(enq) : enq[i].op = "SaveBlock" /\ enq[i].a = 2
    /\ ~CommittedAt(1, 3)
    /\ FlushFailed

\* C10: LastCertificate is nil while no block is committed, and once blocks
\* 1..N are committed it is the certificate passed with block N.
C10_LastCertificateIsLatest ==
    LET n == Len(committed) IN
    IF n = 0 THEN LastCertificate(db).nil
    ELSE /\ ~LastCertificate(db).nil
         /\ LastCertificate(db).cert = Cert(committed[n].a, committed[n].b)
         /\ committed[n].a = n

\* blocks 1 and 2 are committed and the last call was a successful flush
C10_Witness ==
    /\ Len(committed) = 2
    /\ FlushSucceeded
    /\ ~LastCertificate(db).nil

\* C11: a nil result of LastCertificate means that no block has ever been
\* committed: whenever the call returns nil, the database holds no last-info
\* record; a record that is there but does not decode gives another outcome.
C11_NilMeansNoBlockCommitted ==
    (ret.op = "LastCertificate" /\ ret.nil) => ~Has(db, lastInfoKey)

\* the addresses passed to UpdateAccount / UpdateValidator so far: those of
\* the calls still waiting for a flush and those already flushed
AddrsEnqueued(op) == {enq[i].a : i \in {j \in DOMAIN enq : enq[j].op = op}}
AccountsPassed == DOMAIN flushed \cup AddrsEnqueued("UpdateAccount")
ValidatorsPassed ==
    {a \in Addrs : Has(db, validatorKey(a))} \cup AddrsEnqueued("UpdateValidator")

\* C13: after any sequence of UpdateAccount and WriteBatch calls,
\* TotalAccounts is the number of distinct addresses ever passed to
\* UpdateAccount, also when one address is passed twice before any flush.
C13_TotalAccountsIsDistinctAddresses == TotalAccounts = Cardinality(AccountsPassed)

\* C14: a validator gets its number at its first UpdateValidator, one past
\* the current maximum and greater than every number given before; no two
\* addresses share a number; later updates of the address keep the number,
\* and the durable record and the lookup by number agree with it.
C14_NumberGivenOnce ==
    \A a \in DOMAIN valNumbers :
        /\ \A b \in DOMAIN valNumbers \ {a} : valNumbers[b] # valNumbers[a]
        /\ Validator(db, a).err = Nil =>
              /\ Validator(db, a).number = valNumbers[a]
              /\ ValidatorByNumber(db, valNumbers[a]) = [err |-> Nil, addr |-> a]

C14_NumberStep ==
    \A a \in Addrs :
        /\ a \in DOMAIN valNumbers => a \in DOMAIN valNumbers' /\ valNumbers'[a] = valNumbers[a]
        /\ (a \notin DOMAIN valNumbers /\ a \in DOMAIN valNumbers') =>
              /\ \A b \in DOMAIN valNumbers : valNumbers'[a] > valNumbers[b]
              /\ DOMAIN valNumbers # {} =>
                    \E b \in DOMAIN valNumbers :
                        /\ valNumbers'[a] = valNumbers[b] + 1
                        /\ \A c \in DOMAIN valNumbers : valNumbers[c] <= valNumbers[b]

ExpectedCalls(stopAfter) ==
    LET A == DOMAIN flushed
        all == [i \in 1..Cardinality(A) |->
                  LET a == CHOOSE x \in A : Cardinality({y \in A : y < x}) = i - 1
                  IN [addr |-> a, value |-> flushed[a]]]
    IN IF stopAfter = 0 \/ stopAfter > Len(all) THEN all ELSE SubSeq(all, 1, stopAfter)

\* C16: IterateAccounts calls the consumer for exactly the distinct addresses
\* passed to UpdateAccount and flushed, each once, in key order, with the
\* latest flushed value, and makes no call after the consumer returned stop.
C16_IterateAccountsVisitsFlushed ==
    \A n \in StopAfter : IterateAccounts(db, n) = ExpectedCalls(n)

\* two accounts flushed, the first written twice; a consumer stopping at once
\* gets one call, one that never stops gets both
C16_Witness ==
    /\ DOMAIN flushed = Addrs
    /\ flushed[1] = 2
    /\ Len(IterateAccounts(db, 1)) = 1
    /\ Len(IterateAccounts(db, 0)) = 2
    /\ IterateAccounts(db, 0)[1].addr = 1

\* C18: WriteBatch on an empty batch succeeds and leaves the durable state and
\* the batch as they were; a WriteBatch right after a successful WriteBatch
\* changes nothing more.
C18_Step ==
    (ret'.op = "WriteBatch" /\ (batch = << >> \/ (ret.op = "WriteBatch" /\ ret.err = Nil))) =>
        /\ ret'.err = Nil
        /\ db' = db
        /\ batch = << >>
        /\ batch' = << >>

Running(t) == pc[t].at \in {"in", "out"}

\* C12: every public operation holds the exclusive lock for its whole
\* duration, ValidatorAddresses the shared one; so two operations run at the
\* same time only if both are ValidatorAddresses (PublicKey, Close and
\* WriteBatch included).
C12_ExclusiveExceptAddressListing ==
    /\ \A t \in Threads :
          Running(t) =>
              IF pc[t].op = "ValidatorAddresses" THEN t \in lk.readers ELSE lk.writer = t
    /\ \A t, u \in Threads :
          (t # u /\ Running(t) /\ Running(u)) =>
              (pc[t].op = "ValidatorAddresses" /\ pc[u].op = "ValidatorAddresses")

\* a consumer has called an operation that takes the lock its iteration holds
Reentered ==
    \E t \in Threads :
        pc[t].at = "wait" /\ pc[t].outer # "none" /\ LockKind(pc[t].op) # "none"

PasswordGuarded == {"Mnemonic", "PrivateKeys", "ImportPrivateKey", "UpdatePassword"}

\* C19: on a neutered vault Mnemonic, PrivateKeys, ImportPrivateKey and
\* UpdatePassword fail with ErrNeutered whatever the password and the
\* argument, and the vault stays as it was.
C19_Step ==
    (vault.neutered /\ ret'.op \in PasswordGuarded) =>
        (ret'.err = ErrNeutered /\ vault' = vault)

C19_NeuteredVaultRefuses == [][C19_Step]_vars

\* a neutered vault was asked to import a key under the password that opens
\* nothing any more
C19_Witness ==
    /\ vault.neutered
    /\ ret = [op |-> "ImportPrivateKey", err |-> ErrNeutered, password |-> tPassword]
    /\ AddressCount(vault) = 3

\* C20: on an encrypted vault every password-guarded operation called with
\* the empty password or with any password other than the current one fails
\* with ErrInvalidPassword and leaves the vault as it was.
C20_Step ==
    (/\ ~vault.neutered
     /\ IsEncrypted(vault)
     /\ ret'.op \in PasswordGuarded
     /\ ret'.password # vault.password) =>
        (ret'.err = ErrInvalidPassword /\ vault' = vault)

C20_WrongPasswordRefused == [][C20_Step]_vars

\* the password was changed and the old one, tPassword, was then refused
C20_Witness ==
    /\ ~vault.neutered
    /\ vault.password = "invalid-password"
    /\ ret.op = "UpdatePassword"
    /\ ret.err = ErrInvalidPassword
    /\ ret.password = tPassword
    /\ AddressCount(vault) = 5

\* the addresses of the vault with what is known of each
AddressInfos(v) ==
    [derived |-> DerivedAddrs,
     imported |-> {<< prv, kind >> : prv \in v.imported, kind \in {"account", "validator"}}]

\* the passwords the guarded operations take on v
Accepted(v) ==
    {p \in Passwords :
        /\ Mnemonic(v, p).err = Nil
        /\ PrivateKeys(v, p, "addr-1").err = Nil
        /\ ImportPrivateKey(v, p, "third").err \in {Nil, ErrAddressExists}
        /\ UpdatePassword(v, p, p).err = Nil}

\* C21: after a successful UpdatePassword the vault is encrypted exactly when
\* the password just set is not empty, that password and no other is
\* accepted, and the address infos are those of before the change; this
\* holds after every call of a sequence of them.
C21_Step ==
    (ret'.op = "UpdatePassword" /\ ret'.err = Nil) =>
        /\ IsEncrypted(vault') = (ret'.newPassword # "")
        /\ Accepted(vault') = {ret'.newPassword}
        /\ AddressInfos(vault') = AddressInfos(vault)

C21_After ==
    (ret.op = "UpdatePassword" /\ ret.err = Nil) =>
        /\ IsEncrypted(vault) = (ret.newPassword # "")
        /\ Accepted(vault) = {ret.newPassword}

C21_LastPasswordRules == [] C21_After /\ [][C21_Step]_vars

\* the password was changed and then removed: the vault is not encrypted
\* and has its five addresses
C21_Witness ==
    /\ ret.op = "UpdatePassword"
    /\ ret.err = Nil
    /\ ret.password = "invalid-password"
    /\ ret.newPassword = ""
    /\ ~IsEncrypted(vault)
    /\ AddressCount(vault) = 5

\* what every read of durable data returns, for every argument
DurableReads(d) ==
    [Block |-> [h \in Heights |-> Block(d, U32(h))],
     BlockHash |-> [h \in Heights |-> BlockHash(d, U32(h))],
     BlockHeight |-> [x \in Heights \X Variants |-> BlockHeight(d, HashOf(x[1], x[2]))],
     Transaction |-> [id \in TxIds |-> Transaction(d, id)],
     LastCertificate |-> LastCertificate(d),
     Account |-> [a \in Addrs |-> Account(d, a)],
     HasAccount |-> [a \in Addrs |-> HasAccount(d, a)],
     Validator |-> [a \in Addrs |-> Validator(d, a)],
     HasValidator |-> [a \in Addrs |-> HasValidator(d, a)]]

\* C22: SaveBlock, UpdateAccount and UpdateValidator only enqueue: from such
\* a call to the next successful WriteBatch every read of durable data
\* returns what it returned before the call.
\* (the reads take the database alone, so they are compared when it differs)
C22_Step ==
    ~(ret'.op = "WriteBatch" /\ ret'.err = Nil) =>
        (db' = db \/ DurableReads(db') = DurableReads(db))

C22_EnqueueChangesNoRead == [][C22_Step]_vars

\* block 1 is durable; block 2 and an account update are enqueued and a
\* flush has failed: block 2 and the account are still not found
C22_Witness ==
    /\ Len(committed) = 1
    /\ Len(enq) = 2
    /\ FlushFailed
    /\ Block(db, U32(2)).err = ErrNotFound
    /\ \E i \in DOMAIN enq : enq[i].op = "UpdateAccount" /\ ~HasAccount(db, enq[i].a)

\* the goroutine is inside the traversal of IterateAccounts, a call made by
\* its consumer included
Iterating(t) ==
    \/ pc[t].op = "IterateAccounts" /\ pc[t].at = "in"
    \/ pc[t].outer = "IterateAccounts"

\* C23: while an iteration is between its first and its last consumer call,
\* no operation of another caller changes the pending batch, the counters
\* or the durable state: the consumer sees one durable state.
C23_Step ==
    (\E t \in Threads : Iterating(t) /\ Iterating(t)') =>
        UNCHANGED << db, batch, accTotal, valTotal, valNumbers >>

C23_NothingChangesUnderIteration == [][C23_Step]_vars

\* an iteration has made its first consumer call and has one more to make,
\* while the other goroutine has called UpdateAccount and waits for the lock
C23_Witness ==
    \E t, u \in Threads :
        /\ pc[t].op = "IterateAccounts" /\ pc[t].at = "in" /\ pc[t].visits = 1
        /\ Len(iterateAccounts(db, 0)) = 2
        /\ pc[u].op = "UpdateAccount" /\ pc[u].at = "wait"

\* the durable position record of id names an existing block and either its
\* offset + length does not fit 32 bits or the block is shorter than the 37
\* bytes read for the block time
BadRecord(id) ==
    LET pos == tx(db, id)
        r == block(db, pos.height)
    IN /\ pos.err = Nil
       /\ r.err = Nil
       /\ Carry32(pos.offset, pos.length) \/ Len(r.data) < HashSize + 5

\* C24: Transaction never panics, whatever position record and block are
\* stored, and for a record whose offset + length exceeds 2^32 - 1 or whose
\* block is shorter than 37 bytes the result is an error.
C24_TransactionNeverPanics ==
    ret.op = "Transaction" =>
        /\ ret.err # Panic
        /\ BadRecord(ret.id) => ret.err # Nil

AccountKeys(d) == KeysWithPrefix(d, accountPrefix)
ValidatorKeys(d) == KeysWithPrefix(d, validatorPrefix)

PositionKept(id) ==
    Has(db, txKey(id)) => (Has(db', txKey(id)) /\ db'[txKey(id)] = db[txKey(id)])

\* a block saved since the last successful flush contains a transaction id
SavedAgain(id) ==
    \E i \in DOMAIN enq :
        /\ enq[i].op = "SaveBlock"
        /\ \E k \in DOMAIN TxsOf(enq[i].a, enq[i].b) : TxsOf(enq[i].a, enq[i].b)[k] = id

\* C26: a durable position record is never changed by later SaveBlock and
\* WriteBatch calls, also when a later block at another height contains a
\* transaction with the same id.
C26_PositionNeverChanges == [][\A id \in TxIds : PositionKept(id)]_vars

\* C26 as amended: a durable position record is not changed by later
\* SaveBlock and WriteBatch calls unless a later block contains a
\* transaction with the same id.
C26_PositionChangesOnlyWithSameId == [][\A id \in TxIds : SavedAgain(id) \/ PositionKept(id)]_vars

\* two blocks are durable; the transaction of the first still has its
\* record at height 1 and that of the second has one at height 2
C26_Witness ==
    /\ Len(committed) = 2
    /\ tx(db, 2).err = Nil /\ tx(db, 2).height = U32(1)
    /\ tx(db, 3).err = Nil /\ tx(db, 3).height = U32(2)

\* C27: an operation of the store called by a consumer of an iteration never
\* gets the lock, which the iteration holds: the nested call stays in its
\* wait for the lock, and the iteration with it, whatever operation it is.
C27_NestedCallNeverRuns ==
    \A t \in Threads : pc[t].outer # "none" => (pc[t].at = "wait" /\ lk.writer = t)

\* C28: Close releases the engine handle and flushes nothing: Close leaves
\* the database and the batch as they are, and what was enqueued and not
\* flushed when Close was called never becomes durable.
C28_Step ==
    /\ ret'.op = "Close" => (db' = db /\ batch' = batch)
    /\ closed' => db' = db

C28_CloseFlushesNothing == [][C28_Step]_vars

\* the store was closed with an account update in the batch; a WriteBatch
\* after that failed and the account is not durable
C28_Witness ==
    /\ closed
    /\ ret = [op |-> "WriteBatch", err |-> ErrEngine]
    /\ batch # << >>
    /\ \E i \in DOMAIN enq : enq[i].op = "UpdateAccount" /\ ~HasAccount(db, enq[i].a)

====
